---- MODULE Spec2Model ----
(***************************************************************************)
(* The Schema Analyzer widget of src/src/components/SchemaAnalyzer.tsx:    *)
(* its React state, the Analyze click handler analyzeSchema, the timer     *)
(* that completes an analysis, the form edits and the Copy Code button.    *)
(*                                                                         *)
(* A text (the value of the textarea, of the URL field, of the clipboard)  *)
(* is a sequence of chunks: a chunk is one whitespace character or a       *)
(* string that starts and ends with a non-whitespace character.            *)
(***************************************************************************)
EXTENDS Integers, Sequences, FiniteSets, TLC

\* ---------------------------------------------------------------- bounds
\* longest text typed character by character
MaxLen == 1
\* calls of toast() in one behaviour
MaxToasts == 2

\* ------------------------------------------------------------------ texts
Whitespace == {" ", "\n", "\t"}

\* the characters typed one by one; longer inputs are pasted whole
Chars == {" "}

RECURSIVE trimStart(_)
trimStart(t) ==
  IF t # <<>> /\ Head(t) \in Whitespace THEN trimStart(Tail(t)) ELSE t

RECURSIVE trimEnd(_)
trimEnd(t) ==
  IF t # <<>> /\ t[Len(t)] \in Whitespace
  THEN trimEnd(SubSeq(t, 1, Len(t) - 1))
  ELSE t

\* String.prototype.trim
trim(t) == trimEnd(trimStart(t))

\* `${n}` for the one-digit counts the toast reports
ToStr(n) ==
  CASE n = 0 -> "0" [] n = 1 -> "1" [] n = 2 -> "2" [] n = 3 -> "3"
    [] n = 4 -> "4" [] n = 5 -> "5" [] n = 6 -> "6" [] n = 7 -> "7"
    [] n = 8 -> "8" [] n = 9 -> "9" [] OTHER -> "many"

\* ------------------------------------------------------------- mock data
OrganizationIssues == <<
  [level |-> "warning", message |-> "Missing \"telephone\" property for better local SEO"],
  [level |-> "info", message |-> "Consider adding \"sameAs\" for social media profiles"] >>

\* mutant: one recommendation per error or warning only
OrganizationRecommendations_NoneForInfo == <<
  "Add telephone number for local business optimization" >>

OrganizationRecommendations == <<
  "Add telephone number for local business optimization",
  "Include social media profile URLs in \"sameAs\" array" >>

OrganizationSuggestedSchema ==
  "{\n  \"@context\": \"https://schema.org\",\n  \"@type\": \"Organization\",\n  \"name\": \"Your Business Name\",\n  \"url\": \"https://yourbusiness.com\",\n  \"telephone\": \"+1-555-123-4567\",\n  \"address\": {\n    \"@type\": \"PostalAddress\",\n    \"streetAddress\": \"123 Business St\",\n    \"addressLocality\": \"City\",\n    \"addressRegion\": \"State\",\n    \"postalCode\": \"12345\",\n    \"addressCountry\": \"US\"\n  },\n  \"sameAs\": [\n    \"https://facebook.com/yourbusiness\",\n    \"https://twitter.com/yourbusiness\"\n  ]\n}"

OrganizationResult ==
  [type |-> "Organization",
   valid |-> TRUE,
   issues |-> OrganizationIssues,
   recommendations |-> OrganizationRecommendations,
   suggestedSchema |-> OrganizationSuggestedSchema]

\* mutant: the warning listed before the errors
ProductIssues_WarningFirst == <<
  [level |-> "warning", message |-> "Missing \"brand\" property"],
  [level |-> "error", message |-> "Required property \"name\" is missing"],
  [level |-> "error", message |-> "Invalid price format - should be numeric"] >>

\* mutant: the two errors dropped
ProductIssues_NoErrors == <<
  [level |-> "warning", message |-> "Missing \"brand\" property"] >>

ProductIssues == <<
  [level |-> "error", message |-> "Required property \"name\" is missing"],
  [level |-> "error", message |-> "Invalid price format - should be numeric"],
  [level |-> "warning", message |-> "Missing \"brand\" property"] >>

ProductRecommendations == <<
  "Add required \"name\" property to Product schema",
  "Format price as numeric value (e.g., \"19.99\")",
  "Include brand information for better product visibility" >>

ProductSuggestedSchema ==
  "{\n  \"@context\": \"https://schema.org\",\n  \"@type\": \"Product\",\n  \"name\": \"Product Name\",\n  \"brand\": {\n    \"@type\": \"Brand\",\n    \"name\": \"Brand Name\"\n  },\n  \"description\": \"Product description\",\n  \"offers\": {\n    \"@type\": \"Offer\",\n    \"price\": \"19.99\",\n    \"priceCurrency\": \"USD\",\n    \"availability\": \"https://schema.org/InStock\"\n  }\n}"

\* mutant: the Product entry flagged valid
ProductResult_Valid ==
  [type |-> "Product",
   valid |-> TRUE,
   issues |-> ProductIssues,
   recommendations |-> ProductRecommendations,
   suggestedSchema |-> ProductSuggestedSchema]

ProductResult ==
  [type |-> "Product",
   valid |-> FALSE,
   issues |-> ProductIssues,
   recommendations |-> ProductRecommendations,
   suggestedSchema |-> ProductSuggestedSchema]

\* mutant: only the Product entry
mockResults_ProductOnly == << ProductResult >>

mockResults == << OrganizationResult, ProductResult >>

mockSuggestions == <<
  [name |-> "Article",
   description |-> "For blog posts, news articles, and editorial content",
   code |-> "{\n  \"@context\": \"https://schema.org\",\n  \"@type\": \"Article\",\n  \"headline\": \"Your Article Title\",\n  \"author\": {\n    \"@type\": \"Person\",\n    \"name\": \"Author Name\"\n  },\n  \"datePublished\": \"2024-01-01\",\n  \"dateModified\": \"2024-01-01\",\n  \"image\": \"https://example.com/image.jpg\",\n  \"publisher\": {\n    \"@type\": \"Organization\",\n    \"name\": \"Publisher Name\",\n    \"logo\": {\n      \"@type\": \"ImageObject\",\n      \"url\": \"https://example.com/logo.jpg\"\n    }\n  }\n}"],
  [name |-> "LocalBusiness",
   description |-> "For local businesses with physical locations",
   code |-> "{\n  \"@context\": \"https://schema.org\",\n  \"@type\": \"LocalBusiness\",\n  \"name\": \"Business Name\",\n  \"address\": {\n    \"@type\": \"PostalAddress\",\n    \"streetAddress\": \"123 Main St\",\n    \"addressLocality\": \"City\",\n    \"addressRegion\": \"State\",\n    \"postalCode\": \"12345\"\n  },\n  \"telephone\": \"+1-555-123-4567\",\n  \"openingHours\": \"Mo-Fr 09:00-17:00\",\n  \"priceRange\": \"$$\"\n}"],
  [name |-> "FAQPage",
   description |-> "For FAQ pages and question-answer content",
   code |-> "{\n  \"@context\": \"https://schema.org\",\n  \"@type\": \"FAQPage\",\n  \"mainEntity\": [\n    {\n      \"@type\": \"Question\",\n      \"name\": \"What is schema markup?\",\n      \"acceptedAnswer\": {\n        \"@type\": \"Answer\",\n        \"text\": \"Schema markup is structured data that helps search engines understand your content better.\"\n      }\n    }\n  ]\n}"],
  [name |-> "Review",
   description |-> "For product reviews and ratings",
   code |-> "{\n  \"@context\": \"https://schema.org\",\n  \"@type\": \"Review\",\n  \"itemReviewed\": {\n    \"@type\": \"Product\",\n    \"name\": \"Product Name\"\n  },\n  \"author\": {\n    \"@type\": \"Person\",\n    \"name\": \"Reviewer Name\"\n  },\n  \"reviewRating\": {\n    \"@type\": \"Rating\",\n    \"ratingValue\": \"5\",\n    \"bestRating\": \"5\"\n  },\n  \"reviewBody\": \"Great product, highly recommended!\"\n}"] >>

\* ----------------------------------------------------------------- inputs
RECURSIVE SeqsUpTo(_, _)
SeqsUpTo(S, n) ==
  IF n = 0 THEN { <<>> }
  ELSE LET shorter == SeqsUpTo(S, n - 1)
       IN  shorter \cup { Append(s, c) : s \in shorter, c \in S }

TypedTexts == SeqsUpTo(Chars, MaxLen)

\* a string pasted whole; the documents used here start with "{" or "h" and
\* end with "}" or "m", so each is one chunk
Pasted(s) == << s >>

UnknownTypeDocument == "{\"@type\":\"FooBarBaz\"}"

\* HTML that holds no JSON-LD, Microdata or RDFa
PlainHtmlDocument == "<p>Hello</p>"

CodeTexts ==
  TypedTexts
    \cup { Pasted(mockResults[i].suggestedSchema) : i \in 1..Len(mockResults) }
    \cup { Pasted(UnknownTypeDocument), Pasted(PlainHtmlDocument) }

\* the placeholder of the URL field, typed between two blanks
UrlTexts == TypedTexts \cup { << " ", "https://example.com", " " >> }

Tabs == {"code", "url"}

\* ------------------------------------------------------------------ state
VARIABLES
  code,         \* useState("")        the textarea
  url,          \* useState("")        the URL field
  activeTab,    \* useState("code")
  results,      \* useState<SchemaResult[]>([])
  suggestions,  \* useState<SchemaSuggestion[]>([])
  isAnalyzing,  \* useState(false)
  timers,       \* pending setTimeout callbacks of analyzeSchema, oldest first,
                \* each with the input its click saw
  done,         \* the analysis whose completion stored results, or NoAnalysis
  toastCount,   \* number of toast() calls so far
  lastToast,    \* argument of the latest toast() call
  clipboard,    \* text last handed to navigator.clipboard.writeText
  requests      \* URLs requested over the network

vars == << code, url, activeTab, results, suggestions, isAnalyzing, timers,
           done, toastCount, lastToast, clipboard, requests >>

NoAnalysis == [id |-> 0, tab |-> "", input |-> <<>>]

\* number of analyses started so far: timers fire oldest first, so the newest
\* analysis is the last one pending or, with none pending, the one done last
started == IF timers # <<>> THEN timers[Len(timers)].id ELSE done.id

NoToast == [title |-> "", description |-> <<>>, variant |-> ""]

Init ==
  /\ code = <<>>
  /\ url = <<>>
  /\ activeTab = "code"
  /\ results = <<>>
  /\ suggestions = <<>>
  /\ isAnalyzing = FALSE
  /\ timers = <<>>
  /\ done = NoAnalysis
  /\ toastCount = 0
  /\ lastToast = NoToast
  /\ clipboard = <<>>
  /\ requests = {}

\* ----------------------------------------------------------------- toasts
\* every pending analysis will still call toast() once
ToastBudget == toastCount + Len(timers) < MaxToasts

toast(t) ==
  /\ toastCount' = toastCount + 1
  /\ lastToast' = t

EmptyInputToast(tab) ==
  [title |-> IF tab = "code" THEN "No code provided" ELSE "No URL provided",
   description |-> IF tab = "code"
                   THEN << "Please enter some HTML code to analyze" >>
                   ELSE << "Please enter a website URL to analyze" >>,
   variant |-> "destructive"]

CompleteToast ==
  [title |-> "Analysis complete",
   description |-> << "Found ", ToStr(Len(mockResults)), " schema types and ",
                      ToStr(Len(mockSuggestions)), " suggestions" >>,
   variant |-> "default"]

CopiedToast(s) ==
  [title |-> "Copied to clipboard",
   description |-> << s.name, " schema template copied with script tags" >>,
   variant |-> "default"]

\* ------------------------------------------------------------- form edits
\* the textarea is rendered in the content of the code tab
SetCode(t) ==
  /\ activeTab = "code"
  /\ t # code
  /\ code' = t
  /\ UNCHANGED << url, activeTab, results, suggestions, isAnalyzing, timers,
                  done, toastCount, lastToast, clipboard, requests >>

\* the URL field is rendered in the content of the url tab
SetUrl(t) ==
  /\ activeTab = "url"
  /\ t # url
  /\ url' = t
  /\ UNCHANGED << code, activeTab, results, suggestions, isAnalyzing, timers,
                  done, toastCount, lastToast, clipboard, requests >>

\* mutant: switching the tab clears the displayed analysis
SetActiveTab_ClearsResults(tab) ==
  /\ tab # activeTab
  /\ activeTab' = tab
  /\ results' = <<>>
  /\ suggestions' = <<>>
  /\ UNCHANGED << code, url, isAnalyzing, timers,
                  done, toastCount, lastToast, clipboard, requests >>

SetActiveTab(tab) ==
  /\ tab # activeTab
  /\ activeTab' = tab
  /\ UNCHANGED << code, url, results, suggestions, isAnalyzing, timers,
                  done, toastCount, lastToast, clipboard, requests >>

\* ---------------------------------------------------------------- analyze
\* mutant: the textarea is read whatever the active tab
ActiveInput_CodeOnly == code

\* the input of the active tab
ActiveInput == IF activeTab = "code" THEN code ELSE url

\* !x.trim(): the empty string is the only falsy string
inputEmpty == trim(ActiveInput) = <<>>

\* mutant: the button is never disabled
AnalyzeDisabled_Never == FALSE

\* <Button disabled={isAnalyzing}>
AnalyzeDisabled == isAnalyzing

\* mutant: the return after the destructive toast is missing
AnalyzeClick_NoReturn ==
  /\ ~AnalyzeDisabled
  /\ ToastBudget
  /\ IF inputEmpty
     THEN toast(EmptyInputToast(activeTab))
     ELSE UNCHANGED << toastCount, lastToast >>
  /\ isAnalyzing' = TRUE
  /\ timers' = Append(timers, [id |-> started + 1, tab |-> activeTab,
                               input |-> ActiveInput])
  /\ UNCHANGED << code, url, activeTab, results, suggestions, done,
                  clipboard, requests >>

\* mutant: a starting analysis clears the earlier results
AnalyzeClick_ClearsResults ==
  /\ ~AnalyzeDisabled
  /\ ToastBudget
  /\ IF inputEmpty
     THEN /\ toast(EmptyInputToast(activeTab))
          /\ UNCHANGED << code, url, activeTab, results, suggestions,
                          isAnalyzing, timers, done, clipboard,
                          requests >>
     ELSE /\ isAnalyzing' = TRUE
          /\ results' = <<>>
          /\ suggestions' = <<>>
          /\ timers' = Append(timers, [id |-> started + 1, tab |-> activeTab,
                                       input |-> ActiveInput])
          /\ UNCHANGED << code, url, activeTab, done,
                          toastCount, lastToast, clipboard, requests >>

\* mutant: the 'Analysis complete' toast is emitted before the await
AnalyzeClick_EarlyToast ==
  /\ ~AnalyzeDisabled
  /\ ToastBudget
  /\ IF inputEmpty
     THEN /\ toast(EmptyInputToast(activeTab))
          /\ UNCHANGED << code, url, activeTab, results, suggestions,
                          isAnalyzing, timers, done, clipboard,
                          requests >>
     ELSE /\ isAnalyzing' = TRUE
          /\ toast(CompleteToast)
          /\ timers' = Append(timers, [id |-> started + 1, tab |-> activeTab,
                                       input |-> ActiveInput])
          /\ UNCHANGED << code, url, activeTab, results, suggestions, done,
                          clipboard, requests >>

\* analyzeSchema up to its await: the click on Analyze
AnalyzeClick ==
  /\ ~AnalyzeDisabled
  /\ ToastBudget
  /\ IF inputEmpty
     THEN /\ toast(EmptyInputToast(activeTab))
          /\ UNCHANGED << code, url, activeTab, results, suggestions,
                          isAnalyzing, timers, done, clipboard,
                          requests >>
     ELSE /\ isAnalyzing' = TRUE
          /\ timers' = Append(timers, [id |-> started + 1, tab |-> activeTab,
                                       input |-> ActiveInput])
          /\ UNCHANGED << code, url, activeTab, results, suggestions, done,
                          toastCount, lastToast, clipboard, requests >>

\* mutant: URL mode fetches the page and finds nothing in it
TimerFires_Fetch ==
  /\ timers # <<>>
  /\ timers' = Tail(timers)
  /\ IF Head(timers).tab = "url"
     THEN /\ requests' = requests \cup { trim(Head(timers).input) }
          /\ results' = <<>>
     ELSE /\ requests' = requests
          /\ results' = mockResults
  /\ suggestions' = mockSuggestions
  /\ isAnalyzing' = FALSE
  /\ done' = Head(timers)
  /\ toast(CompleteToast)
  /\ UNCHANGED << code, url, activeTab, clipboard >>

\* mutant: input without structured data ends with no result and a notice
TimerFires_Unsupported ==
  /\ timers # <<>>
  /\ timers' = Tail(timers)
  /\ IF Head(timers).input = Pasted(PlainHtmlDocument)
     THEN /\ results' = <<>>
          /\ toast([title |-> "No structured data found",
                    description |-> <<>>, variant |-> "default"])
     ELSE /\ results' = mockResults
          /\ toast(CompleteToast)
  /\ suggestions' = mockSuggestions
  /\ isAnalyzing' = FALSE
  /\ done' = Head(timers)
  /\ UNCHANGED << code, url, activeTab, clipboard, requests >>

\* mutant: the continuation throws before it stores anything
TimerFires_Throws ==
  /\ timers # <<>>
  /\ timers' = Tail(timers)
  /\ UNCHANGED << code, url, activeTab, results, suggestions, isAnalyzing,
                  done, toastCount, lastToast, clipboard, requests >>

\* mutant: setResults(prev => [...prev, ...mockResults])
TimerFires_Append ==
  /\ timers # <<>>
  /\ timers' = Tail(timers)
  /\ results' = results \o mockResults
  /\ suggestions' = mockSuggestions
  /\ isAnalyzing' = FALSE
  /\ done' = Head(timers)
  /\ toast(CompleteToast)
  /\ UNCHANGED << code, url, activeTab, clipboard, requests >>

\* mutant: setResults is rendered before the other two updates
TimerFires_Unbatched ==
  /\ timers # <<>>
  /\ \/ /\ done.id # Head(timers).id
        /\ results' = mockResults
        /\ done' = Head(timers)
        /\ UNCHANGED << code, url, activeTab, suggestions, isAnalyzing,
                        timers, toastCount, lastToast, clipboard, requests >>
     \/ /\ done.id = Head(timers).id
        /\ timers' = Tail(timers)
        /\ suggestions' = mockSuggestions
        /\ isAnalyzing' = FALSE
        /\ toast(CompleteToast)
        /\ UNCHANGED << code, url, activeTab, results, done, clipboard,
                        requests >>

\* analyzeSchema after its await: the 2000 ms timer fires and the rest of the
\* function runs to its end in one task
TimerFires ==
  /\ timers # <<>>
  /\ timers' = Tail(timers)
  /\ results' = mockResults
  /\ suggestions' = mockSuggestions
  /\ isAnalyzing' = FALSE
  /\ done' = Head(timers)
  /\ toast(CompleteToast)
  /\ UNCHANGED << code, url, activeTab, clipboard, requests >>

\* ------------------------------------------------------------------- copy
\* mutant: the script tags are left out
ScriptWrapped_Bare(s) == << s.code >>

ScriptWrapped(s) ==
  << "<script type=\"application/ld+json\">", "\n", s.code, "\n", "</script>" >>

\* the Copy Code button of suggestion i, rendered once suggestions is not
\* empty; the click is the user activation under which the browser grants the
\* write
CopyCode(i) ==
  /\ i \in 1..Len(suggestions)
  /\ ToastBudget
  /\ clipboard' = ScriptWrapped(suggestions[i])
  /\ toast(CopiedToast(suggestions[i]))
  /\ UNCHANGED << code, url, activeTab, results, suggestions, isAnalyzing,
                  timers, done, requests >>

\* ---------------------------------------------------------- specification
Next ==
  \/ \E t \in CodeTexts : SetCode(t)
  \/ \E t \in UrlTexts : SetUrl(t)
  \/ \E tab \in Tabs : SetActiveTab(tab)
  \/ AnalyzeClick
  \/ TimerFires
  \/ \E i \in 1..Len(mockSuggestions) : CopyCode(i)

Spec == Init /\ [][Next]_vars

\* the timer of a started analysis fires
FairSpec == Spec /\ WF_vars(TimerFires)

\* ------------------------------------------------------ claims: helpers
ErrorCount(r) == Cardinality({ i \in DOMAIN r.issues : r.issues[i].level = "error" })

ProblemCount(r) ==
  Cardinality({ i \in DOMAIN r.issues : r.issues[i].level \in {"error", "warning"} })

LevelRank(level) ==
  CASE level = "error" -> 0 [] level = "warning" -> 1 [] OTHER -> 2

Names(seq) == [ i \in DOMAIN seq |-> seq[i].name ]

Types(seq) == [ i \in DOMAIN seq |-> seq[i].type ]

\* some analysis has completed
Completed == done.id > 0

\* this step completes an analysis
Completes == done'.id # done.id

\* --------------------------------------------------------------- claims
\* C1: whatever the code, the URL and the active tab held, once an analysis
\* has completed `results` is the fixed two-entry list (Organization valid,
\* then Product invalid), `suggestions` is the fixed four-entry list (Article,
\* LocalBusiness, FAQPage, Review), and nothing was requested over the network.
C1_FixedMockData ==
  Completed =>
    /\ Types(results) = << "Organization", "Product" >>
    /\ results[1].valid = TRUE
    /\ results[2].valid = FALSE
    /\ Names(suggestions) = << "Article", "LocalBusiness", "FAQPage", "Review" >>
    /\ requests = {}

\* an analysis of a URL has completed
C1_Witness ==
  /\ Completed
  /\ done.tab = "url"
  /\ trim(done.input) = << "https://example.com" >>
  /\ results # <<>>

\* C2: a click on Analyze while the input of the active tab is empty or only
\* whitespace starts no analysis: isAnalyzing stays false, no timer is
\* scheduled, results and suggestions keep their values, and exactly one
\* destructive toast is emitted.
C2_EmptyInputRejected ==
  [][ (AnalyzeClick /\ inputEmpty) =>
        /\ isAnalyzing = FALSE /\ isAnalyzing' = FALSE
        /\ timers' = timers
        /\ done' = done
        /\ results' = results
        /\ suggestions' = suggestions
        /\ toastCount' = toastCount + 1
        /\ lastToast'.variant = "destructive" ]_vars

\* a whitespace-only textarea has just been rejected, with earlier results kept
C2_Witness ==
  /\ lastToast.title = "No code provided"
  /\ activeTab = "code"
  /\ code # <<>>
  /\ inputEmpty
  /\ results # <<>>
  /\ ~isAnalyzing

\* C3: in every reachable state every entry of `results` has valid true
\* exactly when none of its issues has level 'error'.
C3_ValidIffNoError ==
  \A i \in DOMAIN results : results[i].valid <=> (ErrorCount(results[i]) = 0)

\* results hold a valid entry and an invalid one
C3_Witness ==
  /\ \E i \in DOMAIN results : results[i].valid
  /\ \E i \in DOMAIN results : ~results[i].valid /\ ErrorCount(results[i]) > 0

\* C4: every analysis that starts completes: once isAnalyzing is true for the
\* k-th analysis, a later state has isAnalyzing false with results and
\* suggestions stored by that analysis, whatever the user does meanwhile.
C4_AnalysisCompletes ==
  \A k \in 1..MaxToasts :
    (isAnalyzing /\ started = k) ~>
      (~isAnalyzing /\ done.id = k /\ results # <<>> /\ suggestions # <<>>)

\* an analysis of the textarea has completed after the user left the code tab
\* and typed in the URL field
C4_Witness ==
  /\ Completed
  /\ ~isAnalyzing
  /\ done.tab = "code"
  /\ activeTab = "url"
  /\ url # <<>>
  /\ results # <<>>
  /\ suggestions # <<>>

\* C5: a completion that follows an earlier completion on the identical input
\* stores results (and suggestions) equal to the ones stored before, element
\* for element and in the same order.
C5_Idempotent ==
  [][ (Completes /\ Completed /\ done'.tab = done.tab /\ done'.input = done.input) =>
        /\ results' = results
        /\ suggestions' = suggestions ]_vars

\* the second analysis has completed, on the same input as the first
C5_Witness ==
  /\ done.id = 2
  /\ done.input = code
  /\ done.tab = "code"
  /\ results # <<>>

\* C6: `results` is empty or the full result set, it is non-empty exactly when
\* `suggestions` is, and whenever isAnalyzing is true it is true for an analysis
\* newer than the one whose results are stored.
C6_NoPartialResults ==
  /\ results = <<>> \/ results = mockResults
  /\ (results # <<>>) <=> (suggestions # <<>>)
  /\ suggestions = <<>> \/ suggestions = mockSuggestions
  /\ isAnalyzing => done.id < started
  /\ \A i \in DOMAIN timers : timers[i].id # done.id

\* earlier results are shown while a later analysis is in flight
C6_Witness ==
  /\ isAnalyzing
  /\ Completed
  /\ results # <<>>
  /\ timers # <<>>

\* C7: in every result the issues are ordered by level: errors before
\* warnings before info.
C7_IssuesOrdered ==
  \A r \in DOMAIN results :
    \A i, j \in DOMAIN results[r].issues :
      i < j => LevelRank(results[r].issues[i].level)
                 <= LevelRank(results[r].issues[j].level)

\* results hold an entry with an error and a warning, and one with an info
C7_Witness ==
  /\ \E r \in DOMAIN results :
       /\ \E i \in DOMAIN results[r].issues : results[r].issues[i].level = "error"
       /\ \E i \in DOMAIN results[r].issues : results[r].issues[i].level = "warning"
  /\ \E r \in DOMAIN results :
       \E i \in DOMAIN results[r].issues : results[r].issues[i].level = "info"

\* C8 as stated: every result has as many recommendations as it has issues of
\* level 'error' or 'warning'.
C8_OnePerErrorOrWarning ==
  \A r \in DOMAIN results :
    Len(results[r].recommendations) = ProblemCount(results[r])

\* C8: every result has one recommendation per issue, info-level issues
\* included: as many recommendations as issues.
C8_OnePerIssue ==
  \A r \in DOMAIN results :
    Len(results[r].recommendations) = Len(results[r].issues)

\* results hold an entry with an info-level issue
C8_Witness ==
  \E r \in DOMAIN results :
    /\ \E i \in DOMAIN results[r].issues : results[r].issues[i].level = "info"
    /\ Len(results[r].recommendations) > ProblemCount(results[r])

\* the result of the given type in `results`
ResultsOfType(type) == { r \in DOMAIN results : results[r].type = type }

\* C9 as stated: after the suggestedSchema of a result has been analysed as
\* the code input, the result for that entity type has no error-level issue.
C9_RoundTripNoErrors ==
  \A i \in DOMAIN mockResults :
    (Completed /\ done.tab = "code"
       /\ done.input = Pasted(mockResults[i].suggestedSchema)) =>
      \A r \in ResultsOfType(mockResults[i].type) : ErrorCount(results[r]) = 0

\* C9: after the suggestedSchema of a result has been analysed as the code
\* input, there is one result for that entity type and it has the issues it had
\* before: none of level error for Organization, the two errors for Product.
C9_RoundTripSameErrors ==
  \A i \in DOMAIN mockResults :
    (Completed /\ done.tab = "code"
       /\ done.input = Pasted(mockResults[i].suggestedSchema)) =>
      /\ Cardinality(ResultsOfType(mockResults[i].type)) = 1
      /\ \A r \in ResultsOfType("Organization") : ErrorCount(results[r]) = 0
      /\ \A r \in ResultsOfType("Product") : ErrorCount(results[r]) = 2

\* the suggestedSchema of the Product result has been analysed
C9_Witness ==
  /\ Completed
  /\ done.tab = "code"
  /\ done.input = Pasted(ProductSuggestedSchema)
  /\ ResultsOfType("Product") # {}

\* the single-entity inputs, each with the declared type of its entity
SingleEntityInputs ==
  { [input |-> Pasted(UnknownTypeDocument), type |-> "FooBarBaz"],
    [input |-> Pasted(ProductSuggestedSchema), type |-> "Product"] }

\* C10 as stated: an input holding a single entity yields exactly one result,
\* of that entity's declared type.
C10_OneResultPerEntity ==
  \A e \in SingleEntityInputs :
    (Completed /\ done.tab = "code" /\ done.input = e.input) =>
      Types(results) = << e.type >>

\* C10: an input holding a single entity, of whatever declared type, yields
\* the two fixed results, Organization then Product.
C10_TwoResultsForOneEntity ==
  \A e \in SingleEntityInputs :
    (Completed /\ done.tab = "code" /\ done.input = e.input) =>
      Types(results) = << "Organization", "Product" >>

\* the document of the unknown type FooBarBaz has been analysed
C10_Witness ==
  /\ Completed
  /\ done.tab = "code"
  /\ done.input = Pasted(UnknownTypeDocument)
  /\ Len(results) > 0

\* C11 as stated: after a non-empty input that holds no structured-data syntax
\* has been analysed, the result set is empty.
C11_UnsupportedGivesNoResult ==
  (Completed /\ done.tab = "code" /\ done.input = Pasted(PlainHtmlDocument)) =>
    results = <<>>

\* C11: the analysis of a non-empty input that holds no structured-data syntax
\* ends without a fault, with the two fixed results stored and the 'Analysis
\* complete' toast that reports 2 schema types and 4 suggestions.
C11_UnsupportedGivesMockData ==
  /\ (Completed /\ done.tab = "code" /\ done.input = Pasted(PlainHtmlDocument)) =>
       /\ Types(results) = << "Organization", "Product" >>
       /\ Len(suggestions) = 4
  /\ (Completed /\ ~isAnalyzing /\ lastToast.title = "Analysis complete"
        /\ done.input = Pasted(PlainHtmlDocument)) =>
       lastToast.description =
         << "Found ", "2", " schema types and ", "4", " suggestions" >>

\* the plain HTML document has just been analysed
C11_Witness ==
  /\ Completed
  /\ done.tab = "code"
  /\ done.input = Pasted(PlainHtmlDocument)
  /\ lastToast.title = "Analysis complete"
  /\ ~isAnalyzing

\* C12: at most one analysis is in flight: isAnalyzing is true exactly when
\* one timer is pending, never more than one timer is pending, and while
\* isAnalyzing is true no click on Analyze takes effect (no analysis starts and
\* no rejection toast is emitted).
C12_OneInFlight ==
  /\ [](Len(timers) <= 1 /\ (isAnalyzing <=> Len(timers) = 1))
  /\ [][ isAnalyzing =>
           /\ Len(timers') <= Len(timers)
           /\ started' = started
           /\ (toastCount' # toastCount => lastToast'.variant # "destructive") ]_vars

\* the second analysis is in flight after the first has completed
C12_Witness ==
  /\ isAnalyzing
  /\ Len(timers) = 1
  /\ timers[1].id = 2
  /\ done.id = 1

\* C13: the emptiness check of a click on Analyze looks only at the input of
\* the active tab: an empty URL on the url tab is rejected with 'No URL
\* provided' and an empty textarea on the code tab with 'No code provided',
\* whatever the other input holds, and a non-empty input of the active tab
\* starts an analysis of that input.
C13_ActiveTabDecides ==
  [][ AnalyzeClick =>
        /\ (activeTab = "url" /\ trim(url) = <<>>) =>
             /\ lastToast'.title = "No URL provided"
             /\ toastCount' = toastCount + 1
             /\ timers' = timers /\ isAnalyzing' = FALSE
        /\ (activeTab = "code" /\ trim(code) = <<>>) =>
             /\ lastToast'.title = "No code provided"
             /\ toastCount' = toastCount + 1
             /\ timers' = timers /\ isAnalyzing' = FALSE
        /\ (activeTab = "url" /\ trim(url) # <<>>) =>
             /\ isAnalyzing' = TRUE
             /\ Len(timers') = Len(timers) + 1
             /\ timers'[Len(timers')].tab = "url"
             /\ timers'[Len(timers')].input = url
             /\ toastCount' = toastCount
        /\ (activeTab = "code" /\ trim(code) # <<>>) =>
             /\ isAnalyzing' = TRUE
             /\ Len(timers') = Len(timers) + 1
             /\ timers'[Len(timers')].tab = "code"
             /\ timers'[Len(timers')].input = code
             /\ toastCount' = toastCount ]_vars

\* an empty URL has just been rejected while the textarea holds a document
C13_Witness ==
  /\ lastToast.title = "No URL provided"
  /\ activeTab = "url"
  /\ trim(url) = <<>>
  /\ trim(code) # <<>>
  /\ ~isAnalyzing

\* C14: a step that edits the code textarea, edits the URL field or switches
\* the active tab changes that one piece of form state and nothing else: not
\* results, suggestions or isAnalyzing, and not the pending analysis; and a
\* completion stores the fixed data whatever was edited during the wait.
C14_EditsChangeOnlyForm ==
  [][ /\ (code' # code \/ url' # url \/ activeTab' # activeTab) =>
           /\ UNCHANGED << results, suggestions, isAnalyzing, timers, done,
                           toastCount, lastToast, clipboard, requests >>
           /\ code' # code => UNCHANGED << url, activeTab >>
           /\ url' # url => UNCHANGED << code, activeTab >>
           /\ activeTab' # activeTab => UNCHANGED << code, url >>
      /\ Completes =>
           /\ done' = Head(timers)
           /\ Types(results') = << "Organization", "Product" >>
           /\ Len(suggestions') = 4 ]_vars

\* the textarea was edited while the analysis of its earlier content is in
\* flight and the results of an earlier analysis are displayed
C14_Witness ==
  /\ isAnalyzing
  /\ timers # <<>>
  /\ timers[1].tab = "code"
  /\ activeTab = "code"
  /\ timers[1].input # code
  /\ results # <<>>

\* C15: results and suggestions are empty until the first analysis completes,
\* and once non-empty they stay non-empty in every later state, also while a
\* later analysis is in flight and after a later rejected click.
C15_ResultsNeverCleared ==
  /\ [](~Completed => (results = <<>> /\ suggestions = <<>>))
  /\ [][ /\ results # <<>> => results' # <<>>
         /\ suggestions # <<>> => suggestions' # <<>> ]_vars

\* the results of the first analysis are displayed while the second one,
\* started right after it, is in flight
C15_Witness ==
  /\ results # <<>>
  /\ suggestions # <<>>
  /\ isAnalyzing
  /\ started = 2
  /\ toastCount = 1

\* C16: a copy happens only once an analysis has completed and suggestions is
\* not empty; it writes to the clipboard the code of the chosen suggestion
\* between the JSON-LD script opening tag and the closing script tag, each on
\* a line of its own, emits one 'Copied to clipboard' toast naming that
\* suggestion, and leaves code, url, activeTab, results, suggestions and
\* isAnalyzing (and the pending analysis) unchanged.
C16_CopyWritesWrappedCode ==
  [][ (clipboard' # clipboard
         \/ (toastCount' # toastCount /\ lastToast'.title = "Copied to clipboard")) =>
        /\ Completed
        /\ suggestions # <<>>
        /\ \E i \in DOMAIN suggestions :
             /\ clipboard' = << "<script type=\"application/ld+json\">", "\n",
                                suggestions[i].code, "\n", "</script>" >>
             /\ lastToast'.description =
                  << suggestions[i].name, " schema template copied with script tags" >>
        /\ lastToast'.title = "Copied to clipboard"
        /\ toastCount' = toastCount + 1
        /\ UNCHANGED << code, url, activeTab, results, suggestions, isAnalyzing,
                        timers, done, requests >> ]_vars

\* the FAQPage template has just been copied
C16_Witness ==
  /\ lastToast.title = "Copied to clipboard"
  /\ lastToast.description[1] = "FAQPage"
  /\ Len(clipboard) = 5
  /\ clipboard[3] = mockSuggestions[3].code

\* C17: every click on Analyze produces exactly one toast: a rejected click
\* the destructive toast at once, an accepted click none at once and its
\* analysis one 'Analysis complete' toast when its timer fires and at no other
\* time; with that toast results and suggestions are stored and isAnalyzing is
\* cleared, and the counts it reports, 2 schema types and 4 suggestions, are
\* the lengths of the stored results and suggestions.
C17_OneToastPerClick ==
  [][ /\ AnalyzeClick =>
           IF inputEmpty
           THEN toastCount' = toastCount + 1 /\ lastToast'.variant = "destructive"
           ELSE toastCount' = toastCount /\ lastToast' = lastToast
      /\ Len(timers') < Len(timers) => Completes
      /\ Completes =>
           /\ timers' = Tail(timers)
           /\ toastCount' = toastCount + 1
           /\ lastToast'.title = "Analysis complete"
      /\ (toastCount' # toastCount /\ lastToast'.title = "Analysis complete") =>
           /\ timers # <<>>
           /\ done' = Head(timers)
           /\ isAnalyzing' = FALSE
           /\ Len(results') = 2
           /\ Len(suggestions') = 4
           /\ lastToast'.description =
                << "Found ", "2", " schema types and ", "4", " suggestions" >>
           /\ lastToast'.variant = "default" ]_vars

\* a rejected click and then a completed analysis: two clicks, two toasts
C17_Witness ==
  /\ toastCount = 2
  /\ done.id = 1
  /\ lastToast.title = "Analysis complete"
  /\ ~isAnalyzing
  /\ timers = <<>>
  /\ clipboard = <<>>

====
